---- MODULE Spec2Model ----
(***************************************************************************)
(* A model of get_residual (src/expanding_kernel.py): the radially         *)
(* stretched Gaussian high-pass filter.  One call is a state machine that  *)
(* walks the statements of the function; the arrays are held with exact    *)
(* arithmetic (extended rationals, and for blurred values exact forms in   *)
(* the weights of the Gaussian kernel), the two library collaborators      *)
(* (scipy.interpolate.interp2d, scipy.ndimage gaussian_filter) are         *)
(* modelled by what they do on the inputs drawn in Init.                   *)
(***************************************************************************)
EXTENDS Integers, Sequences, FiniteSets

VARIABLES
    data, xaxis, yaxis,          \* the caller's arrays
    gamma, w0, interp_kind, return_background,
    input_data, X, Y,            \* line 35-36
    R,                           \* line 39
    x, y,                        \* line 42-43
    func1, stretched_data,       \* line 46, 49
    background, highpass_residual, \* line 52-53
    func2, output_data,          \* line 57/66, 60/69
    shared,                      \* locals that share storage with a caller's array
    pc, error, stages, result

vars == <<data, xaxis, yaxis, gamma, w0, interp_kind, return_background,
          input_data, X, Y, R, x, y, func1, stretched_data, background,
          highpass_residual, func2, output_data, shared, pc, error, stages,
          result>>

----------------------------------------------------------------------------
(* Bounds of the checked input space.                                      *)
MaxLen == 3
MaxCoord == 2

----------------------------------------------------------------------------
(* Numbers.  A value is <<n, d>>: d > 0 a rational in lowest terms;        *)
(* <<1,0>> and <<-1,0>> are +inf and -inf; <<0,0>> is NaN.  <<0,-1>> is a  *)
(* value the library leaves unspecified.                                   *)
(*                                                                         *)
(* The weights of the Gaussian kernel are irrational, so a blurred value   *)
(* is held as an exact form in them.  With w_k the kernel's weight at      *)
(* offset k,                                                               *)
(*     w_k = exp(-k^2 / (2 sigma^2)) / SUM_j exp(-j^2 / (2 sigma^2)),      *)
(* j over -r..r and r = KernelRadius(sigma), a form is <<c, L, Q>> and     *)
(* stands for                                                              *)
(*     c + SUM_a L[a+1] * w_a + SUM_{a <= b} Q[a+1][b-a+1] * w_a * w_b     *)
(* with c and the entries of L and Q rationals and a, b in 0..r.  A form   *)
(* whose L and Q are zero is held as the rational c.  Equal forms stand    *)
(* for equal numbers; forms are not reduced by w_0 + 2 (w_1 + .. + w_r)    *)
(* = 1, so two different forms may stand for the same number.              *)
NaN == <<0, 0>>
Unk == <<0, -1>>
PosInf == <<1, 0>>

Abs(n) == IF n < 0 THEN -n ELSE n
Sign(n) == IF n < 0 THEN -1 ELSE IF n > 0 THEN 1 ELSE 0

RECURSIVE GCD(_, _)
GCD(a, b) == IF b = 0 THEN a ELSE GCD(b, a % b)

Norm(n, d) ==
    IF d = 0 THEN <<Sign(n), 0>>
    ELSE LET g == GCD(Abs(n), Abs(d))
             s == Sign(d)
         IN  <<(s * n) \div g, (s * d) \div g>>

Num(n) == <<n, 1>>
IsNaN(v) == v = NaN
IsUnk(v) == v = Unk
IsForm(v) == Len(v) = 3
IsFinite(v) == IsForm(v) \/ v[2] > 0
IsInf(v) == ~IsForm(v) /\ v[2] = 0 /\ v[1] # 0

\* a + b and a * b of two rationals
AddF(a, b) ==
    IF a[1] = 0 THEN b
    ELSE IF b[1] = 0 THEN a
    ELSE LET g == GCD(a[2], b[2])
         IN  Norm(a[1] * (b[2] \div g) + b[1] * (a[2] \div g),
                  (a[2] \div g) * b[2])
MulF(a, b) ==
    IF a[1] = 0 \/ b[1] = 0 THEN <<0, 1>>
    ELSE LET g1 == GCD(Abs(a[1]), b[2])
             g2 == GCD(Abs(b[1]), a[2])
         IN  Norm((a[1] \div g1) * (b[1] \div g2),
                  (a[2] \div g2) * (b[2] \div g1))

\* a + b and a * b of two values <<n, d>>
AddQ(a, b) ==
    IF IsNaN(a) \/ IsNaN(b) THEN NaN
    ELSE IF IsUnk(a) \/ IsUnk(b) THEN Unk
    ELSE IF IsInf(a) THEN (IF IsInf(b) /\ b[1] # a[1] THEN NaN ELSE a)
    ELSE IF IsInf(b) THEN b
    ELSE AddF(a, b)

MulQ(a, b) ==
    IF IsNaN(a) \/ IsNaN(b) THEN NaN
    ELSE IF IsUnk(a) \/ IsUnk(b) THEN Unk
    ELSE IF a[2] = 0 \/ b[2] = 0 THEN <<Sign(a[1]) * Sign(b[1]), 0>>
    ELSE MulF(a, b)

\* Forms (their entries are rationals): the rational c as a form of the size of f, the sum of two forms,
\* a form times a rational, and a form brought back to a rational when no
\* weight is left in it.
Embed(c, f) == <<c, [k \in 1..Len(f[2]) |-> Num(0)] \o <<>>,
                [k \in 1..Len(f[3]) |-> [m \in 1..Len(f[3][k]) |-> Num(0)] \o <<>>] \o <<>>>>
FormAdd(f, g) ==
    <<AddF(f[1], g[1]),
      [k \in 1..Len(f[2]) |-> AddF(f[2][k], g[2][k])] \o <<>>,
      [k \in 1..Len(f[3]) |->
          [m \in 1..Len(f[3][k]) |-> AddF(f[3][k][m], g[3][k][m])] \o <<>>] \o <<>>>>
FormScale(c, f) ==
    <<MulF(c, f[1]),
      [k \in 1..Len(f[2]) |-> MulF(c, f[2][k])] \o <<>>,
      [k \in 1..Len(f[3]) |->
          [m \in 1..Len(f[3][k]) |-> MulF(c, f[3][k][m])] \o <<>>] \o <<>>>>
Reduced(f) ==
    IF /\ \A k \in 1..Len(f[2]) : f[2][k] = Num(0)
       /\ \A k \in 1..Len(f[3]) : \A m \in 1..Len(f[3][k]) : f[3][k][m] = Num(0)
    THEN f[1] ELSE f

Neg(a) == IF IsUnk(a) THEN Unk
          ELSE IF IsForm(a) THEN FormScale(Num(-1), a)
          ELSE <<-a[1], a[2]>>

Add(a, b) ==
    IF IsNaN(a) \/ IsNaN(b) THEN NaN
    ELSE IF IsUnk(a) \/ IsUnk(b) THEN Unk
    ELSE IF ~IsForm(a) /\ ~IsForm(b) THEN AddQ(a, b)
    ELSE IF IsInf(a) \/ b = Num(0) THEN a
    ELSE IF IsInf(b) \/ a = Num(0) THEN b
    ELSE Reduced(FormAdd(IF IsForm(a) THEN a ELSE Embed(a, b),
                         IF IsForm(b) THEN b ELSE Embed(b, a)))

Sub(a, b) == Add(a, Neg(b))

\* A product has at most one form in it: a form is only ever multiplied by
\* a rational (an interpolation fraction).  The sign of a form is not
\* decided here, so an infinite multiple of one is left unspecified.
Mul(a, b) ==
    IF IsNaN(a) \/ IsNaN(b) THEN NaN
    ELSE IF IsUnk(a) \/ IsUnk(b) THEN Unk
    ELSE IF ~IsForm(a) /\ ~IsForm(b) THEN MulQ(a, b)
    ELSE IF IsForm(a) /\ IsForm(b) THEN Unk
    ELSE LET c == IF IsForm(a) THEN b ELSE a
             f == IF IsForm(a) THEN a ELSE b
         IN  IF IsInf(c) THEN Unk
             ELSE IF c = Num(0) THEN Num(0)
             ELSE IF c = Num(1) THEN f
             ELSE FormScale(c, f)

\* a / b for finite a and finite non-zero b
Div(a, b) == Mul(a, Norm(b[2], b[1]))

\* a < b as IEEE compares: FALSE when either side is NaN
Less(a, b) ==
    IF IsNaN(a) \/ IsNaN(b) THEN FALSE
    ELSE IF IsInf(a) THEN a[1] < 0 /\ b # a
    ELSE IF IsInf(b) THEN b[1] > 0
    ELSE a[1] * b[2] < b[1] * a[2]

----------------------------------------------------------------------------
(* Arrays: a 1-D array is a sequence of values, a 2-D array a sequence of  *)
(* rows.                                                                   *)
Shape(M) == <<Len(M), IF Len(M) = 0 THEN 0 ELSE Len(M[1])>>
Size(M) == Shape(M)[1] * Shape(M)[2]

MatAdd(A, B) == [i \in 1..Len(A) |-> [j \in 1..Len(A[i]) |-> Add(A[i][j], B[i][j])]]
MatSub(A, B) == [i \in 1..Len(A) |-> [j \in 1..Len(A[i]) |-> Sub(A[i][j], B[i][j])]]

\* numpy.sort / numpy.argsort: ascending, NaN last.  SortPerm(s)[k] is the
\* index in s of the k-th smallest element.
Before(s, i, j) ==
    IF IsNaN(s[i]) THEN IsNaN(s[j]) /\ i < j
    ELSE IF IsNaN(s[j]) THEN TRUE
    ELSE Less(s[i], s[j]) \/ (~Less(s[j], s[i]) /\ i < j)
Rank(s, i) == Cardinality({j \in 1..Len(s) : j # i /\ Before(s, j, i)}) + 1
SortPerm(s) == [k \in 1..Len(s) |-> CHOOSE i \in 1..Len(s) : Rank(s, i) = k]
Sorted(s) == [k \in 1..Len(s) |-> s[SortPerm(s)[k]]]
IsAscending(s) == \A i \in 1..(Len(s) - 1) : ~Less(s[i + 1], s[i]) /\ ~IsNaN(s[i]) /\ ~IsNaN(s[i + 1])

----------------------------------------------------------------------------
(* Line 39: R = (X**2 + Y**2)**0.5.  numpy adds the two 1-D arrays         *)
(* elementwise, so the operands must have the same length (the inputs of   *)
(* Init have at least two entries, so no length-1 broadcast applies).      *)
(* The square root is kept exact: R[i] is stored as its radicand, the      *)
(* entry n standing for sqrt(n).                                           *)
Square(a) == Mul(a, a)
CanBroadcast(a, b) == Len(a) = Len(b)
RadialGrid(ax, ay) == [i \in 1..Len(ax) |-> Add(Square(ax[i]), Square(ay[i]))[1]]

RECURSIVE IPow(_, _)
IPow(n, e) == IF e = 0 THEN 1 ELSE n * IPow(n, e - 1)

\* Variant of PowSurd that takes every power of zero to be undefined.
PowSurdZeroUndefined(n, g) ==
    IF n = 0 THEN NaN
    ELSE IF g >= 0 THEN Num(IPow(n, g \div 2))
    ELSE Norm(1, IPow(n, (-g) \div 2))

\* sqrt(n) ** g for an even exponent g, as numpy computes it: 0.0**0 is 1,
\* 0.0**g is inf for g < 0.
PowSurd(n, g) ==
    IF g = 0 THEN Num(1)
    ELSE IF g > 0 THEN Num(IPow(n, g \div 2))
    ELSE IF n = 0 THEN PosInf
    ELSE Norm(1, IPow(n, (-g) \div 2))

\* Lines 42-43: X * (R**gamma), elementwise.
Stretch(ax, r, g) == [i \in 1..Len(ax) |-> Mul(ax[i], PowSurd(r[i], g))]

----------------------------------------------------------------------------
(* scipy.interpolate.interp2d, as called on lines 46, 57 and 66.           *)
Degree(kind) == CASE kind = "linear" -> 1 [] kind = "cubic" -> 3 [] kind = "quintic" -> 5 [] OTHER -> 0
SupportedKinds == {"linear", "cubic", "quintic"}

\* The constructor's checks, in its order; "none" when it returns.
Interp2dError(xs, ys, z, kind) ==
    LET rect == Size(z) = Len(xs) * Len(ys)
        k == Degree(kind)
    IN  IF rect /\ Shape(z) # <<Len(ys), Len(xs)>> THEN "ValueError: z must have shape (n, m)"
        ELSE IF ~rect /\ Len(xs) # Len(ys) THEN "ValueError: x and y must have equal lengths"
        ELSE IF ~rect /\ Size(z) # Len(xs) THEN "ValueError: invalid length for input z"
        ELSE IF kind \notin SupportedKinds THEN "ValueError: unsupported interpolation type"
        ELSE IF ~rect /\ Len(xs) < (k + 1) * (k + 1) THEN "TypeError: m >= (kx+1)(ky+1) must hold"
        ELSE IF rect /\ (Len(xs) <= k \/ Len(ys) <= k) THEN "dfitpack.error: (mx>kx) failed"
        ELSE "none"

HasNaN(s) == \E i \in 1..Len(s) : IsNaN(s[i])
\* FITPACK's test x(i-1) >= x(i) on the sorted sample coordinates
HasRepeat(s) == \E i \in 2..Len(s) : ~IsNaN(s[i]) /\ ~IsNaN(s[i - 1]) /\ ~Less(s[i - 1], s[i])

\* The interpolant object.  On a rectangular grid the constructor sorts each
\* coordinate array that is not ascending and reorders z with it.  cond:
\*   "ok"          piecewise-bilinear interpolant of z on the sorted grid
\*   "nan"         a sample coordinate is NaN: the spline coefficients are NaN
\*   "repeat"      repeated sample coordinates: regrid rejects them, the
\*                 constructor ignores its error flag and keeps whatever
\*                 knots and coefficients came back
\*   "scattered"   a fit to scattered points (bisplrep)
\*   "unspecified" a spline of higher degree; its values are left
\*                 unspecified here
Interp2d(xs, ys, z, kind) ==
    LET rect == Size(z) = Len(xs) * Len(ys)
        px == (IF IsAscending(xs) THEN [i \in 1..Len(xs) |-> i] ELSE SortPerm(xs)) \o <<>>
        py == (IF IsAscending(ys) THEN [i \in 1..Len(ys) |-> i] ELSE SortPerm(ys)) \o <<>>
        sx == [i \in 1..Len(xs) |-> xs[px[i]]] \o <<>>
        sy == [i \in 1..Len(ys) |-> ys[py[i]]] \o <<>>
        sz == [i \in 1..Len(ys) |-> [j \in 1..Len(xs) |-> z[py[i]][px[j]]] \o <<>>] \o <<>>
    IN  IF ~rect
        THEN [xs |-> xs, ys |-> ys, z |-> z, cond |-> "scattered"]
        ELSE [xs |-> sx, ys |-> sy,
              z |-> sz,
              cond |-> IF HasRepeat(sx) \/ HasRepeat(sy) THEN "repeat"
                       ELSE IF HasNaN(sx) \/ HasNaN(sy) THEN "nan"
                       ELSE IF Degree(kind) = 1 THEN "ok"
                       ELSE "unspecified"]

\* FITPACK clamps a query to the range of the knots before it evaluates.
Clamp(q, t) == IF Less(q, t[1]) THEN t[1] ELSE IF Less(t[Len(t)], q) THEN t[Len(t)] ELSE q
\* The cell of the sorted knots t that holds the (clamped) query q.
Cell(q, t) ==
    LET below == {k \in 1..(Len(t) - 1) : ~Less(q, t[k])}
    IN  IF below = {} THEN 1 ELSE CHOOSE k \in below : \A m \in below : m <= k
Frac(q, t) == LET c == Cell(q, t) IN Div(Sub(q, t[c]), Sub(t[c + 1], t[c]))

Lerp(a, b, f) == Add(Mul(Sub(Num(1), f), a), Mul(f, b))

Bilinear(f, qx, qy) ==
    LET cx == Clamp(qx, f.xs)
        cy == Clamp(qy, f.ys)
        j == Cell(cx, f.xs)
        i == Cell(cy, f.ys)
        fx == Frac(cx, f.xs)
        fy == Frac(cy, f.ys)
    IN  Lerp(Lerp(f.z[i][j], f.z[i][j + 1], fx),
             Lerp(f.z[i + 1][j], f.z[i + 1][j + 1], fx), fy)

\* interp2d.__call__(x, y): both query arrays are sorted first; the result
\* has one row per y and one column per x.
Interp2dCall(f, qx, qy) ==
    LET sx == Sorted(qx) \o <<>>
        sy == Sorted(qy) \o <<>>
    IN  [i \in 1..Len(sy) |-> [j \in 1..Len(sx) |->
            IF IsNaN(sx[j]) \/ IsNaN(sy[i]) \/ f.cond = "nan" THEN NaN
            ELSE IF f.cond = "ok" THEN Bilinear(f, sx[j], sy[i])
            ELSE Unk]]

----------------------------------------------------------------------------
(* scipy.ndimage gaussian_filter(input, sigma), line 52: a separable       *)
(* filter, first along axis 0, then along axis 1, boundary mode "reflect"; *)
(* an axis whose sigma is not above 1e-15 is skipped, so sigma <= 0 copies *)
(* the input.  The kernel is the normalised Gaussian kernel of radius      *)
(* int(4 sigma + 0.5), symmetric, all its weights positive; an output is   *)
(* the sum over the offsets k in -r..r of w_|k| times the sample at that   *)
(* offset, held as a form in the weights.                                  *)
\* The kernel reaches int(truncate * sigma + 0.5) samples to each side, with
\* truncate = 4.0.
KernelRadius(sigma) == (8 * sigma + 1) \div 2

\* "reflect": d c b a | a b c d | d c b a
Reflect(i, n) == LET p == (i - 1) % (2 * n) IN IF p < n THEN p + 1 ELSE 2 * n - p

\* The part of a sample without a weight, and its part that goes with w_a.
ConstPart(v) == IF IsForm(v) THEN v[1] ELSE v
LinPart(v, a) == IF IsForm(v) THEN v[2][a + 1] ELSE Num(0)
\* A sample that already holds a product of two weights has been through
\* both passes.
HasProduct(v) == IsForm(v) /\ \E k \in 1..Len(v[3]) : \E m \in 1..Len(v[3][k]) : v[3][k][m] # Num(0)

\* The samples of the line t that meet the weight w_a at output i: the one
\* at i for a = 0, the two at distance a otherwise.
TapSum(t, i, a) ==
    IF a = 0 THEN t[i]
    ELSE AddF(t[Reflect(i - a, Len(t))], t[Reflect(i + a, Len(t))])

\* The samples under the kernel at output i.
Footprint(i, n, r) == {Reflect(i + k, n) : k \in (-r)..r}

\* correlate1d at output i of the line s; cs and ls are ConstPart and
\* LinPart of the samples of s.  A sample that is not finite decides the
\* output, every weight being positive.
Correlate(s, cs, ls, i, r) ==
    LET under == Footprint(i, Len(s), r)
    IN  IF \E j \in under : IsNaN(s[j]) THEN NaN
        ELSE IF \E j \in under : IsUnk(s[j]) \/ HasProduct(s[j]) THEN Unk
        ELSE IF \E j \in under : IsInf(s[j])
        THEN (IF \E j, k \in under : IsInf(s[j]) /\ IsInf(s[k]) /\ s[j] # s[k]
              THEN NaN ELSE s[CHOOSE j \in under : IsInf(s[j])])
        ELSE Reduced(
               <<Num(0),
                 [k \in 1..(r + 1) |-> TapSum(cs, i, k - 1)] \o <<>>,
                 [k \in 1..(r + 1) |->
                     [m \in 1..(r + 2 - k) |->
                         IF m = 1 THEN TapSum(ls[k], i, k - 1)
                         ELSE AddF(TapSum(ls[k], i, k + m - 2),
                                   TapSum(ls[k + m - 1], i, k - 1))] \o <<>>] \o <<>>>>)

\* gaussian_filter1d along one line
Blur1D(s, sigma) ==
    LET r == KernelRadius(sigma)
        cs == [j \in 1..Len(s) |-> ConstPart(s[j])] \o <<>>
        ls == [k \in 1..(r + 1) |-> [j \in 1..Len(s) |-> LinPart(s[j], k - 1)] \o <<>>] \o <<>>
    IN  [i \in 1..Len(s) |-> Correlate(s, cs, ls, i, r)]
Column(M, j) == [i \in 1..Len(M) |-> M[i][j]]

\* (axis0 is the array after the pass along axis 0, each row a finished
\* sequence, which the pass along axis 1 then reads)
GaussianFilter(M, sigma) ==
    IF sigma <= 0 THEN M
    ELSE LET cols == [j \in 1..Len(M[1]) |-> Blur1D(Column(M, j), sigma)]
             axis0 == [i \in 1..Len(M) |-> [j \in 1..Len(M[1]) |-> cols[j][i]] \o <<>>]
         IN  [i \in 1..Len(M) |-> Blur1D(axis0[i], sigma)]

----------------------------------------------------------------------------
(* The inputs of a call.                                                   *)
MinLen == 2
Window(a, n) == [i \in 1..n |-> Num(a + i - 1)]
Reverse(s) == [i \in 1..Len(s) |-> s[Len(s) + 1 - i]]
RotateLeft(s) == [i \in 1..Len(s) |-> IF i = Len(s) THEN s[1] ELSE s[i + 1]]

AscendingAxes == {Window(a, n) : <<a, n>> \in
                    {p \in (-MaxCoord..MaxCoord) \X (MinLen..MaxLen) : p[1] + p[2] - 1 <= MaxCoord}}
DescendingAxes == {Reverse(s) : s \in AscendingAxes}
\* not monotonic
RotatedAxes == {RotateLeft(s) : s \in {t \in AscendingAxes : Len(t) > MinLen}}
AxisSet == AscendingAxes \cup DescendingAxes \cup RotatedAxes

DataMap(h, w) == [i \in 1..h |-> [j \in 1..w |-> Num(i * i + 2 * j * j)]]
DataSet == {DataMap(p[1], p[2]) : p \in (MinLen..MaxLen) \X (MinLen..MaxLen)}

\* Even exponents keep R**gamma rational; non-positive widths are drawn to
\* see what the filter does with them; "nearest" is a kind interp2d does not
\* have.
Gammas == {-2, 0, 2}
Widths == {-1, 0, 1, 2}
Kinds == {"linear", "cubic", "nearest"}

NoArray == <<>>
NoFunc == [xs |-> <<>>, ys |-> <<>>, z |-> <<>>, cond |-> "unset"]

\* Variant of CopyShares: plain assignment of data instead of a copy.
CopySharesAliased == {"input_data"}

\* ndarray.copy(): a new array holding the same values, which shares no
\* storage with the array it was taken from (lines 35-36).
CopyOf(a) == a
CopyShares == {}

\* The inputs are those on which lines 39-43 give pairwise distinct
\* stretched coordinates in exact arithmetic: there binary64 rounding
\* neither makes nor removes a tie between two coordinates.
DistinctStretch(ax, ay, g) ==
    /\ ~HasRepeat(Sorted(Stretch(ax, RadialGrid(ax, ay), g)))
    /\ ~HasRepeat(Sorted(Stretch(ay, RadialGrid(ax, ay), g)))

Init ==
    /\ data \in DataSet
    /\ xaxis \in AxisSet
    /\ yaxis \in AxisSet
    /\ gamma \in Gammas
    /\ w0 \in Widths
    /\ interp_kind \in Kinds
    /\ return_background \in BOOLEAN
    /\ Len(xaxis) = Len(yaxis) => DistinctStretch(xaxis, yaxis, gamma)
    /\ input_data = NoArray /\ X = NoArray /\ Y = NoArray
    /\ R = NoArray /\ x = NoArray /\ y = NoArray
    /\ func1 = NoFunc /\ stretched_data = NoArray
    /\ background = NoArray /\ highpass_residual = NoArray
    /\ func2 = NoFunc /\ output_data = NoArray
    /\ shared = {"input_data", "X", "Y"}
    /\ pc = "copy"
    /\ error = "none"
    /\ stages = <<>>
    /\ result = NoArray

args == <<data, xaxis, yaxis, gamma, w0, interp_kind, return_background>>

\* An exception leaves the function: no later statement runs.
Raise(e) == /\ pc' = "raised"
            /\ error' = e

Advance(stage, next) ==
    /\ pc' = next
    /\ stages' = Append(stages, stage)
    /\ UNCHANGED error

\* Lines 35-36
CopyInputs ==
    /\ pc = "copy"
    /\ input_data' = CopyOf(data)
    /\ X' = CopyOf(xaxis)
    /\ Y' = CopyOf(yaxis)
    /\ shared' = CopyShares
    /\ Advance("copy", "radial")
    /\ UNCHANGED <<args, R, x, y, func1, stretched_data, background,
                   highpass_residual, func2, output_data, result>>

\* Line 39
DefineRadialGrid ==
    /\ pc = "radial"
    /\ IF CanBroadcast(X, Y)
       THEN /\ R' = RadialGrid(X, Y)
            /\ Advance("radial", "stretch")
       ELSE /\ Raise("ValueError: operands could not be broadcast together")
            /\ UNCHANGED <<R, stages>>
    /\ UNCHANGED <<args, input_data, X, Y, x, y, func1, stretched_data, background,
                   highpass_residual, func2, output_data, shared, result>>

\* Lines 42-43
StretchGrid ==
    /\ pc = "stretch"
    /\ x' = Stretch(X, R, gamma)
    /\ y' = Stretch(Y, R, gamma)
    /\ Advance("stretch", "build1")
    /\ UNCHANGED <<args, input_data, X, Y, R, func1, stretched_data, background,
                   highpass_residual, func2, output_data, shared, result>>

\* What bisplrep does with a scattered-data fit of enough points is not
\* modelled: it may fail or return a fit.
BuildOutcomes(f) == IF f.cond = "scattered" THEN {"none", "ValueError: invalid input data"} ELSE {"none"}

\* Line 46
BuildForward ==
    /\ pc = "build1"
    /\ LET e == Interp2dError(X, Y, input_data, interp_kind)
       IN  IF e # "none"
           THEN /\ Raise(e)
                /\ UNCHANGED <<func1, stages>>
           ELSE \E o \in BuildOutcomes(Interp2d(X, Y, input_data, interp_kind)) :
                  IF o = "none"
                  THEN /\ func1' = Interp2d(X, Y, input_data, interp_kind)
                       /\ Advance("build1", "eval1")
                  ELSE /\ Raise(o)
                       /\ UNCHANGED <<func1, stages>>
    /\ UNCHANGED <<args, input_data, X, Y, R, x, y, stretched_data, background,
                   highpass_residual, func2, output_data, shared, result>>

\* Evaluating an interpolant whose constructor ignored regrid's error flag
\* reads knots and coefficients that were never set: it may fail, or return
\* an array of unspecified values.
CallOutcomes(f) == IF f.cond = "repeat" THEN {"none", "ValueError: invalid input data"} ELSE {"none"}

\* Line 49
ForwardResample ==
    /\ pc = "eval1"
    /\ \E o \in CallOutcomes(func1) :
         IF o = "none"
         THEN /\ stretched_data' = Interp2dCall(func1, x, y)
              /\ Advance("eval1", "blur")
         ELSE /\ Raise(o)
              /\ UNCHANGED <<stretched_data, stages>>
    /\ UNCHANGED <<args, input_data, X, Y, R, x, y, func1, background,
                   highpass_residual, func2, output_data, shared, result>>

\* Line 52
BlurStretched ==
    /\ pc = "blur"
    /\ background' = GaussianFilter(stretched_data, w0)
    /\ Advance("blur", "subtract")
    /\ UNCHANGED <<args, input_data, X, Y, R, x, y, func1, stretched_data,
                   highpass_residual, func2, output_data, shared, result>>

\* Variant of Residual with the operands exchanged.
ResidualExchanged(stretched, blurred) == MatSub(blurred, stretched)

\* Line 53: stretched_data - background
Residual(stretched, blurred) == MatSub(stretched, blurred)

Subtract ==
    /\ pc = "subtract"
    /\ highpass_residual' = Residual(stretched_data, background)
    /\ Advance("subtract", "build2")
    /\ UNCHANGED <<args, input_data, X, Y, R, x, y, func1, stretched_data,
                   background, func2, output_data, shared, result>>

\* Variant of InverseSamples: the inverse interpolant built on the original
\* axes.
InverseSamplesOriginal == <<X, Y>>

\* The arguments of the second interp2d and of its call: sample and query
\* coordinates.
InverseSamples == <<x, y>>
InverseQuery == <<X, Y>>

BuildInverse(values) ==
    LET e == Interp2dError(InverseSamples[1], InverseSamples[2], values, interp_kind)
    IN  /\ IF e # "none"
           THEN /\ Raise(e)
                /\ UNCHANGED <<func2, stages>>
           ELSE /\ func2' = Interp2d(InverseSamples[1], InverseSamples[2], values, interp_kind)
                /\ Advance("build2", "eval2")
        /\ UNCHANGED <<args, input_data, X, Y, R, x, y, func1, stretched_data,
                       background, highpass_residual, output_data, shared, result>>

\* Lines 55-57
BuildInverseBackground ==
    /\ pc = "build2"
    /\ return_background
    /\ BuildInverse(background)

\* Lines 64-66
BuildInverseResidual ==
    /\ pc = "build2"
    /\ ~return_background
    /\ BuildInverse(highpass_residual)

\* Lines 60 and 69
InverseResample ==
    /\ pc = "eval2"
    /\ \E o \in CallOutcomes(func2) :
         IF o = "none"
         THEN /\ output_data' = Interp2dCall(func2, InverseQuery[1], InverseQuery[2])
              /\ Advance("eval2", "return")
         ELSE /\ Raise(o)
              /\ UNCHANGED <<output_data, stages>>
    /\ UNCHANGED <<args, input_data, X, Y, R, x, y, func1, stretched_data,
                   background, highpass_residual, func2, shared, result>>

\* Lines 62 and 71
Return ==
    /\ pc = "return"
    /\ result' = output_data
    /\ Advance("return", "done")
    /\ UNCHANGED <<args, input_data, X, Y, R, x, y, func1, stretched_data,
                   background, highpass_residual, func2, output_data, shared>>

Next ==
    \/ CopyInputs
    \/ DefineRadialGrid
    \/ StretchGrid
    \/ BuildForward
    \/ ForwardResample
    \/ BlurStretched
    \/ Subtract
    \/ BuildInverseBackground
    \/ BuildInverseResidual
    \/ InverseResample
    \/ Return

Spec == Init /\ [][Next]_vars

----------------------------------------------------------------------------
(* Vocabulary of the properties.                                           *)
StageOrder == <<"copy", "radial", "stretch", "build1", "eval1", "blur",
                "subtract", "build2", "eval2", "return">>
Ran(stage) == \E k \in 1..Len(stages) : stages[k] = stage

StrictlyAscending(s) == \A i \in 1..(Len(s) - 1) : Less(s[i], s[i + 1])
StrictlyMonotonic(s) == StrictlyAscending(s) \/ StrictlyAscending(Reverse(s))
ShapeMatches == Shape(data) = <<Len(yaxis), Len(xaxis)>>
ValidCall ==
    /\ ShapeMatches
    /\ StrictlyMonotonic(xaxis) /\ StrictlyMonotonic(yaxis)
    /\ interp_kind \in SupportedKinds
    /\ w0 > 0
HasNaNEntry(M) == \E i \in 1..Len(M) : HasNaN(M[i])
AllFinite(M) == \A i \in 1..Len(M) : \A j \in 1..Len(M[i]) : IsFinite(M[i][j])

----------------------------------------------------------------------------
\* C1: every valid call (data of shape (Ny, Nx), strictly monotonic 1-D axes
\* of lengths Nx and Ny, Ny # Nx included, a supported kind, w0 > 0, either
\* flag) completes, and the returned array has the shape of the data.
C1_ShapeInvariance ==
    ValidCall => /\ pc # "raised"
                 /\ (pc = "done" => Shape(result) = Shape(data))

RadicandAt(i, j) == Add(Square(xaxis[j]), Square(yaxis[i]))[1]
\* C2: R is the pointwise radius over the full meshgrid: it has the shape of
\* the data map, R at (row i, column j) is sqrt(xaxis[j]^2 + yaxis[i]^2), and
\* the stretched coordinates of every sample use that sample's own R.
C2_RadialGridPointwise ==
    (Ran("stretch") /\ ShapeMatches) =>
        /\ <<Len(R)>> = Shape(data)
        /\ \A i \in 1..Len(yaxis) : \A j \in 1..Len(xaxis) :
              /\ x[j] = Mul(xaxis[j], PowSurd(RadicandAt(i, j), gamma))
              /\ y[i] = Mul(yaxis[i], PowSurd(RadicandAt(i, j), gamma))

\* C3: get_residual leaves the caller's data, xaxis and yaxis as they were,
\* on every step of a call that returns or fails, and from the entry copies
\* on no local shares storage with them.
C3_ArgumentsUntouched ==
    /\ [](pc # "copy" => shared = {})
    /\ [][data' = data /\ xaxis' = xaxis /\ yaxis' = yaxis]_vars
C3_Witness ==
    /\ pc = "done" /\ shared = {}
    /\ input_data = data /\ result # data

OtherSelection == IF return_background THEN highpass_residual ELSE background
OtherOutput == Interp2dCall(Interp2d(x, y, OtherSelection, interp_kind), X, Y)
\* C4: for the same inputs the output with the flag set plus the output with
\* the flag clear is the inverse resample of stretched_data: the branch not
\* taken resamples the other stretched-space array through the same
\* interpolant construction.
C4_FlagComplementarity ==
    (pc = "done" /\ func2.cond = "ok") =>
        MatAdd(result, OtherOutput)
            = Interp2dCall(Interp2d(x, y, stretched_data, interp_kind), X, Y)
C4_Witness ==
    /\ pc = "done" /\ func2.cond = "ok" /\ gamma # 0 /\ w0 > 0
    /\ AllFinite(result) /\ result # OtherOutput
    /\ background # stretched_data

PlainFilter == IF return_background THEN GaussianFilter(data, w0)
               ELSE MatSub(data, GaussianFilter(data, w0))
\* C5: with gamma = 0 the stretched grid is the original grid at every point
\* (a point with R = 0 included), and a valid call returns the plain
\* Gaussian blur of the data (flag set) or the data minus that blur (flag
\* clear), with sigma = w0.
C5_ZeroStretch ==
    gamma = 0 =>
        /\ Ran("stretch") => (x = xaxis /\ y = yaxis)
        /\ (pc = "done" /\ ValidCall /\ interp_kind = "linear") => result = PlainFilter
C5_Witness ==
    /\ gamma = 0 /\ pc = "done" /\ ValidCall /\ interp_kind = "linear"
    /\ \E i \in 1..Len(R) : R[i] = 0
    /\ result # data
    /\ ~StrictlyAscending(xaxis)

NoMapProduced ==
    /\ stretched_data = NoArray /\ background = NoArray
    /\ highpass_residual = NoArray /\ output_data = NoArray /\ result = NoArray

\* C6 as stated: a call whose w0 is zero or negative, or whose interp_kind is
\* not a supported kind, fails: it returns no output array and produces no
\* blurred or residual map.
C6_InvalidParameterRejected ==
    (w0 <= 0 \/ interp_kind \notin SupportedKinds) =>
        /\ pc # "done"
        /\ background = NoArray /\ highpass_residual = NoArray

\* C7 as stated: a call whose data shape differs from (len(yaxis),
\* len(xaxis)) fails at once: no stage (radial grid, stretch, forward
\* resample, blur, inverse resample) runs before the failure, and no output
\* is returned.
C7_ShapeMismatchFailsFirst ==
    ~ShapeMatches =>
        /\ R = NoArray /\ x = NoArray /\ y = NoArray
        /\ NoMapProduced
        /\ pc # "done"

NotMonotonic == ~StrictlyMonotonic(xaxis) \/ ~StrictlyMonotonic(yaxis)
\* C8 as stated: a call in which an axis is not strictly monotonic fails, and
\* fails before the radial grid and the stretched coordinates are built.
\* (The axes drawn are one-dimensional; the claim is stated for those.)
C8_InvalidAxisRejected ==
    NotMonotonic =>
        /\ R = NoArray /\ x = NoArray /\ y = NoArray
        /\ pc # "done"

IsPrefix(s, t) == Len(s) <= Len(t) /\ \A k \in 1..Len(s) : s[k] = t[k]
Selected == IF return_background THEN background ELSE highpass_residual
\* the step is the one in which the stage runs
Runs(stage) == ~Ran(stage) /\ stages' = Append(stages, stage)
\* C9: the stages of a call run in one fixed order with fixed coordinate
\* roles: the forward interpolant is built from the data at the original
\* axes and evaluated at the stretched coordinates; the blur with sigma = w0
\* is applied once, to that array, and the residual is stretched_data minus
\* background; then the inverse interpolant is built on the stretched
\* coordinates with the same kind and evaluated at the original axes; the
\* flag selects only the array given to the inverse interpolant.
\* (Each array is the stated function of the arrays before it at the step
\* that writes it, and no later step changes it or what it was made from.)
C9_StageOrderAndRoles ==
    /\ [](/\ IsPrefix(stages, StageOrder)
          /\ Cardinality({k \in 1..Len(stages) : stages[k] = "blur"}) <= 1
          /\ pc = "done" => result = output_data)
    /\ [][/\ UNCHANGED args
          /\ Runs("build1") => func1' = Interp2d(xaxis, yaxis, data, interp_kind)
          /\ Runs("eval1") => stretched_data' = Interp2dCall(func1, x, y)
          /\ Runs("blur") => background' = GaussianFilter(stretched_data, w0)
          /\ Runs("subtract") => highpass_residual' = MatSub(stretched_data, background)
          /\ Runs("build2") => func2' = Interp2d(x, y, Selected, interp_kind)
          /\ Runs("eval2") => output_data' = Interp2dCall(func2, xaxis, yaxis)
          /\ Ran("stretch") => UNCHANGED <<x, y>>
          /\ Ran("build1") => UNCHANGED func1
          /\ Ran("eval1") => UNCHANGED stretched_data
          /\ Ran("blur") => UNCHANGED background
          /\ Ran("subtract") => UNCHANGED highpass_residual
          /\ Ran("build2") => UNCHANGED func2
          /\ Ran("eval2") => UNCHANGED output_data]_vars
C9_Witness ==
    /\ pc = "done" /\ stages = StageOrder
    /\ x # X /\ y # Y /\ w0 > 0
    /\ background # stretched_data /\ AllFinite(result)
    /\ func2.cond = "ok"

ZeroOnBothAxes ==
    /\ gamma < 0
    /\ \E i \in 1..Len(xaxis) : xaxis[i] = Num(0)
    /\ \E j \in 1..Len(yaxis) : yaxis[j] = Num(0)
\* C10 as stated: when gamma is negative and both axes contain 0, the grid
\* has a point with R = 0 where R**gamma is undefined; R is not clamped,
\* the stretched coordinates of that point are not finite, they are passed
\* to the forward resample, and a call that returns returns a map holding
\* non-finite values.
C10_DegeneracyPropagates ==
    ZeroOnBothAxes =>
        /\ Ran("radial") => \E i \in 1..Len(R) : R[i] = 0
        /\ Ran("stretch") => (HasNaN(x) /\ HasNaN(y))
        /\ Ran("eval1") => HasNaNEntry(stretched_data)
        /\ pc = "done" => HasNaNEntry(result)

====
